---- MODULE Spec2Model ----
(***************************************************************************)
(* Melbourne housing dashboard: the data-preparation routine               *)
(* (utils/data_preprocess.py) and the two page modules that cache its      *)
(* result and recompute their figures from it (pages/home.py,              *)
(* pages/analysis.py).                                                     *)
(*                                                                         *)
(* A table (pandas DataFrame) is a record [columns, rows]: the set of      *)
(* column names and the sequence of rows, each row a function from the     *)
(* column names to cell values; the frame's index labels are carried as    *)
(* the column "index".  Numeric cells are integers; a missing              *)
(* numeric cell is NaN.  Quotients (Price_per_sqm, means) are exact        *)
(* fractions <<num, den>> in lowest terms, with NaNQ for a missing one.    *)
(* The numeric cells of the input files are even numbers, so that the      *)
(* midpoint pandas takes as the median of an even number of values is an   *)
(* integer and is represented exactly.                                     *)
(***************************************************************************)
EXTENDS Integers, Sequences, FiniteSets, TLC

\* ---------------------------------------------------------------- bounds
MaxLoadRows == 3
MaxRows == 2
MaxViewRows == 2
NumSessions == 2
MaxSlider == 3

\* ------------------------------------------------------- values and cells
NaN == -1
NaNQ == <<0, 0>>
None == "None"
StrNaN == "nan"

RECURSIVE GCD(_, _)
GCD(a, b) == IF b = 0 THEN a ELSE GCD(b, a % b)

\* the fraction n/d (n >= 0, d > 0) in lowest terms
Frac(n, d) == LET g == GCD(n, d) IN <<n \div g, d \div g>>

QAdd(x, y) == Frac(x[1] * y[2] + y[1] * x[2], x[2] * y[2])

QLess(x, y) == x[1] * y[2] < y[1] * x[2]

IsNaNQ(x) == x[2] = 0

RECURSIVE SeqSum(_)
SeqSum(s) == IF s = <<>> THEN 0 ELSE Head(s) + SeqSum(Tail(s))

RECURSIVE QSum(_)
QSum(s) == IF s = <<>> THEN <<0, 1>> ELSE QAdd(Head(s), QSum(Tail(s)))

RECURSIVE SelectRows(_, _)
SelectRows(s, keep) ==
  IF s = <<>> THEN <<>>
  ELSE IF keep[1] THEN <<Head(s)>> \o SelectRows(Tail(s), Tail(keep))
       ELSE SelectRows(Tail(s), Tail(keep))

\* DataFrame[mask]: a new frame with the rows whose mask entry is true
BoolIndex(t, mask) == [columns |-> t.columns, rows |-> SelectRows(t.rows, mask)]

\* the non-missing values of a numeric column, in row order
RECURSIVE Present(_, _)
Present(rows, c) ==
  IF rows = <<>> THEN <<>>
  ELSE IF Head(rows)[c] = NaN THEN Present(Tail(rows), c)
       ELSE <<Head(rows)[c]>> \o Present(Tail(rows), c)

RECURSIVE InsertAsc(_, _)
InsertAsc(v, s) ==
  IF s = <<>> THEN <<v>>
  ELSE IF v <= Head(s) THEN <<v>> \o s
       ELSE <<Head(s)>> \o InsertAsc(v, Tail(s))

RECURSIVE SortAsc(_)
SortAsc(s) == IF s = <<>> THEN <<>> ELSE InsertAsc(Head(s), SortAsc(Tail(s)))

\* Series.median(): missing values skipped; NaN when nothing is left; the
\* middle value, or the midpoint of the two middle values
Median(rows, c) ==
  LET v == SortAsc(Present(rows, c))
      n == Len(v)
  IN IF n = 0 THEN NaN
     ELSE IF n % 2 = 1 THEN v[(n + 1) \div 2]
     ELSE (v[n \div 2] + v[n \div 2 + 1]) \div 2

\* Series.mean() of a numeric column without missing values
Mean(rows, c) ==
  IF rows = <<>> THEN NaNQ
  ELSE Frac(SeqSum([i \in 1..Len(rows) |-> rows[i][c]]), Len(rows))

\* ------------------------------------------------- utils/data_preprocess
DroppedColumns == {"Address", "BuildingArea", "YearBuilt", "CouncilArea"}

NumericColumns == {"Price", "Rooms", "Landsize", "BuildingArea", "YearBuilt"}

\* df.dropna(subset=["Price"])
DropNaPrice(t) ==
  BoolIndex(t, [i \in 1..Len(t.rows) |-> t.rows[i]["Price"] # NaN])

\* df.drop(columns=[...], errors="ignore")
DropColumns(t) ==
  LET cols == t.columns \ DroppedColumns
  IN [columns |-> cols,
      rows |-> [i \in 1..Len(t.rows) |-> [c \in cols |-> t.rows[i][c]]]]

MedianBaseRaw(raw, dropped) == raw

\* the frame whose medians fill the holes: the frame as it stands when
\* line 13 runs, after both drops
MedianBase(raw, dropped) == dropped

\* df.fillna(df.median(numeric_only=True)): a missing cell of a numeric
\* column takes that column's median; a column whose median is itself
\* missing is left as it is
FillNa(t, base) ==
  [columns |-> t.columns,
   rows |-> [i \in 1..Len(t.rows) |->
      [c \in t.columns |->
         IF c \in NumericColumns /\ t.rows[i][c] = NaN
           THEN Median(base.rows, c)
           ELSE t.rows[i][c]]]]

\* pd.to_datetime(df["Date"], dayfirst=True): the text d/m/y, held as the
\* three numbers in the order written, becomes a calendar date
ToDatetimeDayFirst(txt) == [day |-> txt[1], month |-> txt[2], year |-> txt[3]]

ParseDates(t) ==
  IF "Date" \in t.columns
    THEN [columns |-> t.columns,
          rows |-> [i \in 1..Len(t.rows) |->
             [c \in t.columns |->
                IF c = "Date" THEN ToDatetimeDayFirst(t.rows[i][c])
                ELSE t.rows[i][c]]]]
    ELSE t

load_and_clean_data(raw) ==
  LET dropped == DropColumns(DropNaPrice(raw))
  IN ParseDates(FillNa(dropped, MedianBase(raw, dropped)))

\* ------------------------------------------------------------ the state
VARIABLES
  csv,              \* melb_data.csv as read by pd.read_csv
  chained_inplace,  \* whether the installed pandas lets an inplace method
                    \* called on df[col] write through to df
  loaded,           \* the page modules already imported
  home_df,          \* pages/home.py: module global df
  analysis_df,      \* pages/analysis.py: module global df
  kpi,              \* pages/analysis.py: avg_price, median_price, ...
  sessions,         \* the browser sessions issuing callbacks
  widget_values,    \* the values those sessions send for each input
  pc,               \* per session: the callback it is inside, or "idle"
  args,             \* per session: the arguments of its callback
  locals,           \* per call frame: the local filtered / filtered_df
  response          \* per session: what its last callback returned

vars == <<csv, chained_inplace, loaded, home_df, analysis_df, kpi,
          sessions, widget_values, pc, args, locals, response>>

NoTable == [columns |-> {}, rows |-> <<>>]
NoKpi == [total_properties |-> NaN]
NoArgs == <<>>
NoResponse == [view |-> "none"]
Session == 1..NumSessions

\* a callback's local variables live in the frame of its own call
FrameSlotShared(s) == 1
FrameSlot(s) == s

\* ------------------------------------------------------------ pages/home
Scale == 10000

PriceMaskStrict(t, low, high) ==
  [i \in 1..Len(t.rows) |->
     t.rows[i]["Price"] > low * Scale /\ t.rows[i]["Price"] < high * Scale]

\* (df["Price"] >= low * 10000) & (df["Price"] <= high * 10000)
PriceMask(t, low, high) ==
  [i \in 1..Len(t.rows) |->
     t.rows[i]["Price"] >= low * Scale /\ t.rows[i]["Price"] <= high * Scale]

\* update_visualizations, lines 62-63
filtered_df(t, price_range) ==
  BoolIndex(t, PriceMask(t, price_range[1], price_range[2]))

InsightMedianZero(t) == IF t.rows = <<>> THEN 0 ELSE Median(t.rows, "Price")

\* filtered_df['Price'].median()
InsightMedian(t) == Median(t.rows, "Price")

\* update_visualizations, lines 65-111: the three figures are drawn from
\* the filtered frame; the text reports the row count, the bounds in
\* dollars and the median price
HomeFigures(t, price_range) ==
  [frame |-> t,
   listings |-> Len(t.rows),
   low |-> price_range[1] * Scale,
   high |-> price_range[2] * Scale,
   median |-> InsightMedian(t)]

\* -------------------------------------------------------- pages/analysis
type_map == [c \in {"h", "t", "u"} |->
               CASE c = "h" -> "House" [] c = "t" -> "Townhouse" [] c = "u" -> "Unit"]

Labels == {type_map[c] : c \in DOMAIN type_map}

\* {v: k for k, v in type_map.items()}
reverse_type_map == [l \in Labels |-> CHOOSE c \in DOMAIN type_map : type_map[c] = l]

\* dict.get(key): None when the key is absent
DictGet(d, k) == IF k \in DOMAIN d THEN d[k] ELSE None

\* Python truth value of an optional string
Truthy(x) == x # None /\ x # ""

\* df["Landsize"].replace(0, np.nan)
ReplaceZero(v) == IF v = 0 THEN NaN ELSE v

\* Series / Series: missing when either operand is
Divide(p, l) == IF p = NaN \/ l = NaN THEN NaNQ ELSE Frac(p, l)

\* df["Price_per_sqm"].fillna(0, inplace=True): a chained call on the
\* column selected from df; it fills df's column only where pandas writes
\* through (before 3.0); with copy-on-write it fills a temporary
FillZero(q, writes) == IF writes /\ IsNaNQ(q) THEN <<0, 1>> ELSE q

\* df[name] = values: the column is added, or replaced, row by row
AddColumn(t, name, values) ==
  [columns |-> t.columns \cup {name},
   rows |-> [i \in 1..Len(t.rows) |->
      [c \in t.columns \cup {name} |->
         IF c = name THEN values[i] ELSE t.rows[i][c]]]]

\* lines 30-31
PricePerSqm(t, writes) ==
  AddColumn(t, "Price_per_sqm",
            [i \in 1..Len(t.rows) |->
               FillZero(Divide(t.rows[i]["Price"], ReplaceZero(t.rows[i]["Landsize"])),
                        writes)])

\* lines 24-27
Kpis(t) ==
  [avg_price |-> Mean(t.rows, "Price"),
   median_price |-> Median(t.rows, "Price"),
   avg_rooms |-> Mean(t.rows, "Rooms"),
   total_properties |-> Len(t.rows)]

\* The names a callback works with: df is the module global, local the
\* frame object the callback created last, ref which of the two the local
\* name filtered is bound to.
AliasFrame(env) == [env EXCEPT !.ref = "df"]

\* filtered = df.copy(): a new object
CopyFrame(env) == [env EXCEPT !.local = env.df, !.ref = "local"]

Deref(env) == IF env.ref = "df" THEN env.df ELSE env.local

\* filtered = filtered[mask]: the name is bound to the new frame
Rebind(env, t) == [env EXCEPT !.local = t, !.ref = "local"]

\* filtered[name] = ...: the object the name is bound to gets the column
SetColumn(env, name, values) ==
  IF env.ref = "df" THEN [env EXCEPT !.df = AddColumn(env.df, name, values)]
  ELSE [env EXCEPT !.local = AddColumn(env.local, name, values)]

ColumnEquals(t, c, v) == [i \in 1..Len(t.rows) |-> t.rows[i][c] = v]

\* lines 183-184
RegionStep(env, region) ==
  IF Truthy(region)
    THEN Rebind(env, BoolIndex(Deref(env), ColumnEquals(Deref(env), "Regionname", region)))
    ELSE env

TypeStepStrict(env, property_type) ==
  IF Truthy(property_type)
    THEN Rebind(env, BoolIndex(Deref(env),
           ColumnEquals(Deref(env), "Type", DictGet(reverse_type_map, property_type))))
    ELSE env

\* lines 185-189
TypeStep(env, property_type) ==
  IF Truthy(property_type)
    THEN LET code == DictGet(reverse_type_map, property_type)
         IN IF Truthy(code)
              THEN Rebind(env, BoolIndex(Deref(env), ColumnEquals(Deref(env), "Type", code)))
              ELSE env
    ELSE env

\* line 192: Series.map(dict), a code outside the dict gives a missing label
TypeNameStep(env) ==
  LET rows == Deref(env).rows
  IN SetColumn(env, "TypeName",
               [i \in 1..Len(rows) |->
                  IF rows[i]["Type"] \in DOMAIN type_map
                    THEN type_map[rows[i]["Type"]] ELSE StrNaN])

\* update_analysis, lines 181-192; the result carries the module global as
\* the steps leave it and the frame bound to filtered
update_analysis_filter(df, region, property_type) ==
  LET e0 == [df |-> df, local |-> NoTable, ref |-> "local"]
      e1 == CopyFrame(e0)
      e2 == RegionStep(e1, region)
      e3 == TypeStep(e2, property_type)
      e4 == TypeNameStep(e3)
  IN [df |-> e4.df, filtered |-> Deref(e4)]

\* ------------------------------------------- group-by, mean and ordering
\* the suburb names of the data in the order Python compares strings
SuburbNames == <<"Abbotsford", "Brunswick">>

SuburbRank(name) == CHOOSE k \in 1..Len(SuburbNames) : SuburbNames[k] = name

RECURSIVE SortedKeys(_)
SortedKeys(S) ==
  IF S = {} THEN <<>>
  ELSE LET m == CHOOSE x \in S : \A y \in S : x <= y
       IN <<m>> \o SortedKeys(S \ {m})

RECURSIVE PresentQ(_)
PresentQ(s) ==
  IF s = <<>> THEN <<>>
  ELSE IF IsNaNQ(Head(s)) THEN PresentQ(Tail(s))
       ELSE <<Head(s)>> \o PresentQ(Tail(s))

\* mean of a group's values, missing ones skipped; missing when none is left
MeanQ(s) ==
  LET v == PresentQ(s)
  IN IF v = <<>> THEN NaNQ
     ELSE LET t == QSum(v) IN Frac(t[1], t[2] * Len(v))

\* groupby(key)[col].mean().reset_index(): one entry per key that occurs,
\* keys ascending
GroupMeans(keys, vals) ==
  LET ks == SortedKeys({keys[i] : i \in 1..Len(keys)})
  IN [j \in 1..Len(ks) |->
        [key |-> ks[j],
         mean |-> MeanQ(SelectRows(vals, [i \in 1..Len(keys) |-> keys[i] = ks[j]]))]]

RECURSIVE InsertAscending(_, _)
InsertAscending(e, s) ==
  IF s = <<>> THEN <<e>>
  ELSE IF ~IsNaNQ(Head(s).mean) /\ (IsNaNQ(e.mean) \/ QLess(Head(s).mean, e.mean))
         THEN <<Head(s)>> \o InsertAscending(e, Tail(s))
         ELSE <<e>> \o s

RECURSIVE InsertDescending(_, _)
InsertDescending(e, s) ==
  IF s = <<>> THEN <<e>>
  ELSE IF ~IsNaNQ(Head(s).mean) /\ (IsNaNQ(e.mean) \/ QLess(e.mean, Head(s).mean))
         THEN <<Head(s)>> \o InsertDescending(e, Tail(s))
         ELSE <<e>> \o s

RECURSIVE SortValuesAscending(_)
SortValuesAscending(s) ==
  IF s = <<>> THEN <<>> ELSE InsertAscending(Head(s), SortValuesAscending(Tail(s)))

\* sort_values(col, ascending=False): greatest first, equal values in the
\* order they had, missing values last
RECURSIVE SortValuesDescending(_)
SortValuesDescending(s) ==
  IF s = <<>> THEN <<>> ELSE InsertDescending(Head(s), SortValuesDescending(Tail(s)))

Column(t, c) == [i \in 1..Len(t.rows) |-> t.rows[i][c]]

AsQ(v) == IF v = NaN THEN NaNQ ELSE <<v, 1>>

\* filtered.groupby("Suburb")[col].mean().reset_index().sort_values(col, ascending=False)
SuburbBars(t, vals) ==
  LET g == SortValuesDescending(
             GroupMeans([i \in 1..Len(t.rows) |-> SuburbRank(t.rows[i]["Suburb"])], vals))
  IN [j \in 1..Len(g) |-> [Suburb |-> SuburbNames[g[j].key], mean |-> g[j].mean]]

\* lines 194-201
price_region(t) == SuburbBars(t, [i \in 1..Len(t.rows) |-> AsQ(t.rows[i]["Price"])])

\* lines 228-235
price_sqm(t) == SuburbBars(t, Column(t, "Price_per_sqm"))

\* Series.dt.to_period("M"): the month, counted from year 0
ToPeriodM(d) == d.year * 12 + (d.month - 1)

\* Period.to_timestamp(): the first day of the month
ToTimestamp(p) == [day |-> 1, month |-> (p % 12) + 1, year |-> p \div 12]

\* lines 215-218
price_time_df(t) ==
  LET g == GroupMeans([i \in 1..Len(t.rows) |-> ToPeriodM(t.rows[i]["Date"])],
                      [i \in 1..Len(t.rows) |-> AsQ(t.rows[i]["Price"])])
  IN [j \in 1..Len(g) |-> [Date |-> ToTimestamp(g[j].key), Price |-> g[j].mean]]

\* update_analysis, lines 194-259: the data of the figures; the scatter,
\* the correlation heatmap and the boxplots are drawn from the filtered
\* frame itself
AnalysisFigures(t) ==
  [price_region |-> price_region(t),
   frame |-> t,
   price_time |-> price_time_df(t),
   price_sqm |-> price_sqm(t)]

\* ------------------------------------------------------------- actions
\* home.py lines 27-35: the slider is laid out from int(df["Price"].max()
\* // 10000), which raises on a frame without rows; the page is then never
\* registered
HomeLayoutBuilds(t) == t.rows # <<>>

\* import of pages/home.py (line 9 and the layout)
LoadHomeModule ==
  /\ "home" \notin loaded
  /\ HomeLayoutBuilds(load_and_clean_data(csv))
  /\ home_df' = load_and_clean_data(csv)
  /\ loaded' = loaded \cup {"home"}
  /\ UNCHANGED <<csv, chained_inplace, analysis_df, kpi, sessions,
                 widget_values, pc, args, locals, response>>

\* import of pages/analysis.py (lines 11-31)
LoadAnalysisModule ==
  /\ "analysis" \notin loaded
  /\ kpi' = Kpis(load_and_clean_data(csv))
  /\ analysis_df' = PricePerSqm(load_and_clean_data(csv), chained_inplace)
  /\ loaded' = loaded \cup {"analysis"}
  /\ UNCHANGED <<csv, chained_inplace, home_df, sessions, widget_values,
                 pc, args, locals, response>>

\* update_visualizations up to line 63: the filtered frame is bound
HomeBegin(s, price_range) ==
  /\ "home" \in loaded
  /\ pc[s] = "idle"
  /\ pc' = [pc EXCEPT ![s] = "home"]
  /\ args' = [args EXCEPT ![s] = price_range]
  /\ locals' = [locals EXCEPT ![FrameSlot(s)] = filtered_df(home_df, price_range)]
  /\ response' = [response EXCEPT ![s] = NoResponse]
  /\ UNCHANGED <<csv, chained_inplace, loaded, home_df, analysis_df, kpi,
                 sessions, widget_values>>

\* update_visualizations from line 65 to its return
HomeFinish(s) ==
  /\ pc[s] = "home"
  /\ response' = [response EXCEPT ![s] =
        [view |-> "home", args |-> args[s],
         figures |-> HomeFigures(locals[FrameSlot(s)], args[s])]]
  /\ locals' = [locals EXCEPT ![FrameSlot(s)] = NoTable]
  /\ pc' = [pc EXCEPT ![s] = "idle"]
  /\ args' = [args EXCEPT ![s] = NoArgs]
  /\ UNCHANGED <<csv, chained_inplace, loaded, home_df, analysis_df, kpi,
                 sessions, widget_values>>

\* update_analysis up to line 192: filtered is bound and carries TypeName
AnalysisBegin(s, region, property_type) ==
  /\ "analysis" \in loaded
  /\ pc[s] = "idle"
  /\ LET out == update_analysis_filter(analysis_df, region, property_type)
     IN /\ analysis_df' = out.df
        /\ locals' = [locals EXCEPT ![FrameSlot(s)] = out.filtered]
  /\ pc' = [pc EXCEPT ![s] = "analysis"]
  /\ args' = [args EXCEPT ![s] = <<region, property_type>>]
  /\ response' = [response EXCEPT ![s] = NoResponse]
  /\ UNCHANGED <<csv, chained_inplace, loaded, home_df, kpi, sessions,
                 widget_values>>

\* update_analysis from line 194 to its return
AnalysisFinish(s) ==
  /\ pc[s] = "analysis"
  /\ response' = [response EXCEPT ![s] =
        [view |-> "analysis", args |-> args[s],
         figures |-> AnalysisFigures(locals[FrameSlot(s)])]]
  /\ locals' = [locals EXCEPT ![FrameSlot(s)] = NoTable]
  /\ pc' = [pc EXCEPT ![s] = "idle"]
  /\ args' = [args EXCEPT ![s] = NoArgs]
  /\ UNCHANGED <<csv, chained_inplace, loaded, home_df, analysis_df, kpi,
                 sessions, widget_values>>

HomeCall ==
  \/ \E s \in sessions : \E pr \in widget_values.price_range : HomeBegin(s, pr)
  \/ \E s \in sessions : HomeFinish(s)

AnalysisCall ==
  \/ \E s \in sessions : \E r \in widget_values.region :
       \E p \in widget_values.property_type : AnalysisBegin(s, r, p)
  \/ \E s \in sessions : AnalysisFinish(s)

\* ------------------------------------------------------- the input files
Suburbs == {SuburbNames[k] : k \in 1..Len(SuburbNames)}

Regions == {"Northern", "Southern"}

\* the Date text of a sale, day first
DateText(suburb) == IF suburb = "Abbotsford" THEN <<4, 3, 2017>> ELSE <<3, 9, 2016>>

RawRecord(price, landsize, suburb, region, type) ==
  [Price |-> price, Rooms |-> 2, Landsize |-> landsize, Suburb |-> suburb,
   Regionname |-> region, Type |-> type, Date |-> DateText(suburb)]

\* the same record in a file that also has the BuildingArea column
WithBuildingArea(r, v) ==
  [c \in DOMAIN r \cup {"BuildingArea"} |-> IF c = "BuildingArea" THEN v ELSE r[c]]

RawColumns == {"Price", "Rooms", "Landsize", "Suburb", "Regionname", "Type", "Date"}

\* pd.read_csv: the records in file order, labelled 0, 1, ... by the
\* frame's index, which every derived frame carries along
ReadCsv(columns, records) ==
  [columns |-> columns \cup {"index"},
   rows |-> [i \in 1..Len(records) |->
      [c \in columns \cup {"index"} |-> IF c = "index" THEN i - 1 ELSE records[i][c]]]]

Files(columns, records, n) ==
  {ReadCsv(columns, rs) : rs \in UNION {[1..k -> records] : k \in 0..n}}

LoadRecords ==
  {RawRecord(p, l, "Abbotsford", "Northern", "h") :
     p \in {NaN, 10000}, l \in {NaN, 0, 2, 4}}

\* the files the loader is run on, of at most n records, with and without
\* a BuildingArea column
LoadCsvs(n) ==
  Files(RawColumns, LoadRecords, n)
  \cup Files(RawColumns \cup {"BuildingArea"},
             {WithBuildingArea(r, v) : r \in LoadRecords, v \in {NaN}}, n)

HomeCsvs(n) ==
  Files(RawColumns,
        {RawRecord(p, 2, "Abbotsford", "Northern", "h") : p \in {NaN, 10000, 20000, 30000}},
        n)

AnalysisCsvs(n) ==
  Files(RawColumns,
        {RawRecord(p, l, "Abbotsford", "Northern", "h") :
           p \in {10000, 20000}, l \in {NaN, 0, 2}}
        \cup {RawRecord(p, 2, "Brunswick", "Northern", "h") : p \in {10000, 20000}},
        n)
  \cup Files(RawColumns,
        {RawRecord(IF t = "h" THEN 20000 ELSE 10000, 2,
                   IF r = "Northern" THEN "Abbotsford" ELSE "Brunswick", r, t) :
           r \in Regions, t \in {"h", "t", "u"}},
        n)

ViewCsvs(n) ==
  Files(RawColumns,
        {RawRecord(10000, 0, "Abbotsford", "Northern", "h"),
         RawRecord(20000, 2, "Brunswick", "Southern", "u")},
        n)

SliderPairs == (0..MaxSlider) \X (0..MaxSlider)

RegionValues == {None, ""} \cup Regions

TypeValues == {None, "House", "Townhouse", "Unit", "Villa"}

AllWidgetValues ==
  [price_range |-> SliderPairs, region |-> RegionValues, property_type |-> TypeValues]

FewWidgetValues ==
  [price_range |-> {<<1, 1>>, <<1, 2>>},
   region |-> {None, "Northern"},
   property_type |-> {None, "Unit"}]

\* ------------------------------------------------------ specifications
InitWith(files, ss, widgets) ==
  /\ csv \in files
  /\ chained_inplace \in BOOLEAN
  /\ loaded = {}
  /\ home_df = NoTable
  /\ analysis_df = NoTable
  /\ kpi = NoKpi
  /\ sessions = ss
  /\ widget_values = widgets
  /\ pc = [s \in Session |-> "idle"]
  /\ args = [s \in Session |-> NoArgs]
  /\ locals = [s \in Session |-> NoTable]
  /\ response = [s \in Session |-> NoResponse]

InitLoad == InitWith(LoadCsvs(MaxLoadRows), {}, AllWidgetValues)
NextLoad == LoadHomeModule \/ LoadAnalysisModule
SpecLoad == InitLoad /\ [][NextLoad]_vars

InitHome == InitWith(HomeCsvs(MaxRows), {1}, AllWidgetValues)
NextHome == LoadHomeModule \/ HomeCall
SpecHome == InitHome /\ [][NextHome]_vars

InitAnalysis == InitWith(AnalysisCsvs(MaxRows), {1}, AllWidgetValues)
NextAnalysis == LoadAnalysisModule \/ AnalysisCall
SpecAnalysis == InitAnalysis /\ [][NextAnalysis]_vars

Init == InitWith(ViewCsvs(MaxViewRows), Session, FewWidgetValues)
Next == LoadHomeModule \/ LoadAnalysisModule \/ HomeCall \/ AnalysisCall
Spec == Init /\ [][Next]_vars

\* ---------------------------------------------------------- properties
RowSet(t) == {t.rows[i] : i \in 1..Len(t.rows)}

Project(r, cols) == [c \in cols |-> r[c]]

HomeReplies == {s \in sessions : response[s].view = "home"}

AnalysisReplies == {s \in sessions : response[s].view = "analysis"}

LoadedFrames ==
  (IF "home" \in loaded THEN {home_df} ELSE {})
  \cup (IF "analysis" \in loaded THEN {analysis_df} ELSE {})

InRange(r, low, high) == low * Scale <= r["Price"] /\ r["Price"] <= high * Scale

\* C1: for low <= high the Home view's filtered set holds exactly the rows
\* of the cached table with low*10000 <= Price <= high*10000, and has no
\* more rows than the cached table.
C1_PriceRangeFilter ==
  \A s \in HomeReplies :
    LET low == response[s].args[1]
        high == response[s].args[2]
        f == response[s].figures.frame
    IN low <= high =>
         /\ \A r \in RowSet(f) : InRange(r, low, high)
         /\ \A r \in RowSet(home_df) : InRange(r, low, high) => r \in RowSet(f)
         /\ Len(f.rows) = Cardinality(RowSet(f))
         /\ Len(f.rows) <= Len(home_df.rows)

C1_Witness ==
  \E s \in HomeReplies :
    /\ response[s].args[1] < response[s].args[2]
    /\ response[s].figures.frame.rows # <<>>
    /\ Len(response[s].figures.frame.rows) < Len(home_df.rows)
    /\ \E r \in RowSet(response[s].figures.frame) :
         r["Price"] = response[s].args[2] * Scale

\* C2: the table load_and_clean_data returns has no missing Price and no
\* missing value in any numeric column.
C2_NoMissingNumeric ==
  \A f \in LoadedFrames : \A r \in RowSet(f) :
    \A c \in f.columns \cap NumericColumns : r[c] # NaN

\* C3: in the Analysis table Price_per_sqm is a finite non-negative number,
\* 0 where Landsize is 0 and Price / Landsize elsewhere.
C3_PricePerSqm ==
  "analysis" \in loaded =>
    \A r \in RowSet(analysis_df) :
      LET q == r["Price_per_sqm"]
      IN /\ ~IsNaNQ(q)
         /\ q[1] >= 0
         /\ r["Landsize"] = 0 => q = <<0, 1>>
         /\ r["Landsize"] # 0 => q = Divide(r["Price"], r["Landsize"])

Bars(s) == {response[s].figures.price_region, response[s].figures.price_sqm}

\* C4 as stated: in both per-suburb bar series each mean is strictly
\* greater than the next one.
C4_StrictlyDescending ==
  \A s \in AnalysisReplies : \A b \in Bars(s) :
    \A j \in 1..(Len(b) - 1) : QLess(b[j + 1].mean, b[j].mean)

\* C4 amended: in both per-suburb bar series no mean is less than the one
\* following it (equal means may be adjacent) and suburbs whose mean is
\* missing come last.
C4_Descending ==
  \A s \in AnalysisReplies : \A b \in Bars(s) :
    \A j \in 1..(Len(b) - 1) :
      /\ ~QLess(b[j].mean, b[j + 1].mean)
      /\ IsNaNQ(b[j].mean) => IsNaNQ(b[j + 1].mean)

C4_Witness ==
  \E s \in AnalysisReplies :
    LET b == response[s].figures.price_region
    IN /\ Len(b) = 2
       /\ QLess(b[2].mean, b[1].mean)
       /\ b[1].Suburb = SuburbNames[2]
       /\ Truthy(response[s].args[2])

\* C5: a Home call with low = high that no Price equals leaves the filtered
\* set empty, runs to its return, and reports 0 listings with a missing
\* (NaN) median.
C5_EmptyRange ==
  \A s \in sessions :
    /\ (pc[s] = "home" /\ locals[FrameSlot(s)].rows = <<>>) => ENABLED HomeFinish(s)
    /\ s \in HomeReplies =>
         LET low == response[s].args[1]
             high == response[s].args[2]
         IN (low = high /\ \A r \in RowSet(home_df) : r["Price"] # low * Scale) =>
              /\ response[s].figures.frame.rows = <<>>
              /\ response[s].figures.listings = 0
              /\ response[s].figures.median = NaN

C5_Witness ==
  \E s \in HomeReplies :
    /\ response[s].args[1] = response[s].args[2]
    /\ home_df.rows # <<>>
    /\ \A r \in RowSet(home_df) : r["Price"] # response[s].args[1] * Scale
    /\ \E r \in RowSet(home_df) : r["Price"] < response[s].args[1] * Scale
    /\ response[s].figures.listings = 0

Given(x) == x # None /\ x # ""

\* the rows of the Analysis call's filtered set, without the TypeName
\* column added for display
FilteredRows(s) ==
  {Project(r, analysis_df.columns) : r \in RowSet(response[s].figures.frame)}

RegionKeeps(r, region) == ~Given(region) \/ r["Regionname"] = region

TypeKeepsAsStated(r, property_type) ==
  ~Given(property_type)
  \/ (property_type \in Labels /\ r["Type"] = reverse_type_map[property_type])

TypeKeeps(r, property_type) ==
  \/ ~Given(property_type)
  \/ property_type \notin Labels
  \/ r["Type"] = reverse_type_map[property_type]

\* C6 as stated: the filtered set is the rows with (region not given or
\* Regionname = region) and (property_type not given or Type = the code
\* the label maps back to).
C6_FilterAsStated ==
  \A s \in AnalysisReplies :
    FilteredRows(s) =
      {r \in RowSet(analysis_df) :
         RegionKeeps(r, response[s].args[1]) /\ TypeKeepsAsStated(r, response[s].args[2])}

\* C6 amended: the filtered set is the rows with (region not given or
\* Regionname = region) and (property_type not given, or not one of the
\* three labels, or Type = the code the label maps back to); it is the
\* intersection of the two filters applied alone, and the whole table when
\* neither is given.
C6_Filter ==
  \A s \in AnalysisReplies :
    LET region == response[s].args[1]
        property_type == response[s].args[2]
        byRegion == {r \in RowSet(analysis_df) : RegionKeeps(r, region)}
        byType == {r \in RowSet(analysis_df) : TypeKeeps(r, property_type)}
    IN /\ FilteredRows(s) = byRegion \cap byType
       /\ FilteredRows(s) = {r \in byType : RegionKeeps(r, region)}
       /\ FilteredRows(s) = {r \in byRegion : TypeKeeps(r, property_type)}
       /\ Len(response[s].figures.frame.rows) = Cardinality(FilteredRows(s))
       /\ (~Given(region) /\ ~Given(property_type)) =>
            FilteredRows(s) = RowSet(analysis_df)

C6_Witness ==
  \E s \in AnalysisReplies :
    /\ Given(response[s].args[1])
    /\ response[s].args[2] \in Labels
    /\ FilteredRows(s) # {}
    /\ \E r \in RowSet(analysis_df) :
         r["Regionname"] = response[s].args[1] /\ r \notin FilteredRows(s)

\* C7: once a page module is loaded no callback changes its cached table,
\* and the Analysis table never gets a TypeName column.
C7_CacheUnchanged ==
  [][/\ "home" \in loaded => home_df' = home_df
     /\ "analysis" \in loaded =>
          (analysis_df' = analysis_df /\ "TypeName" \notin analysis_df'.columns)]_vars

C7_Witness ==
  /\ \E s \in AnalysisReplies :
       /\ "TypeName" \in response[s].figures.frame.columns
       /\ response[s].figures.frame.rows # <<>>
       /\ ~Given(response[s].args[1])
  /\ \E s \in HomeReplies : response[s].figures.frame.rows # <<>>
  /\ "TypeName" \notin analysis_df.columns

\* what a call returns when it is the only call made on the table as loaded
AloneHome(a) == HomeFigures(filtered_df(load_and_clean_data(csv), a), a)

AloneAnalysis(a) ==
  AnalysisFigures(
    update_analysis_filter(PricePerSqm(load_and_clean_data(csv), chained_inplace),
                           a[1], a[2]).filtered)

\* C8: whatever calls other sessions make in between, each call returns
\* what it would return as the only call ever made with its inputs.
C8_ResultFromInputsOnly ==
  /\ \A s \in HomeReplies : response[s].figures = AloneHome(response[s].args)
  /\ \A s \in AnalysisReplies : response[s].figures = AloneAnalysis(response[s].args)

C8_Witness ==
  \E s \in AnalysisReplies : \E u \in sessions \ {s} :
    /\ pc[u] = "analysis"
    /\ args[u] # response[s].args
    /\ locals[FrameSlot(u)].rows # response[s].figures.frame.rows
    /\ response[s].figures.frame.rows # <<>>

\* the rows of the input file that have a Price
Kept == {r \in RowSet(csv) : r["Price"] # NaN}

\* the value at rank k (1 = smallest) among the values of column c that
\* are present in the kept rows
AtRank(c, k) ==
  LET P == {r \in Kept : r[c] # NaN}
  IN CHOOSE v \in {r[c] : r \in P} :
       /\ Cardinality({r \in P : r[c] < v}) < k
       /\ k <= Cardinality({r \in P : r[c] <= v})

IsPostDropMedian(m, c) ==
  LET n == Cardinality({r \in Kept : r[c] # NaN})
  IN IF n = 0 THEN m = NaN
     ELSE 2 * m = AtRank(c, (n + 1) \div 2) + AtRank(c, n \div 2 + 1)

C10_UnknownLabel ==
  \A s \in AnalysisReplies :
    (Given(response[s].args[2]) /\ response[s].args[2] \notin Labels) =>
      FilteredRows(s) = {r \in RowSet(analysis_df) : RegionKeeps(r, response[s].args[1])}

C10_Witness ==
  \E s \in AnalysisReplies :
    /\ response[s].args[2] = "Villa"
    /\ Given(response[s].args[1])
    /\ FilteredRows(s) # {}
    /\ FilteredRows(s) # RowSet(analysis_df)

====
